---- MODULE Spec2Model ----
(***************************************************************************)
(* Model of the Yokogawa AQ6370D optical spectrum analyzer driver          *)
(* (pymeasure/instruments/yokogawa/aq6370d.py): the control descriptors,   *)
(* the direct command methods, the connection they write to and a device   *)
(* that stores what is written under the header it was written to.         *)
(***************************************************************************)
EXTENDS Integers, Sequences, FiniteSets, TLC

VARIABLES writes, reads, device, last, nops

vars == <<writes, reads, device, last, nops>>

(***************************************************************************)
(* Values.  A Python value handed to or returned by the driver is either   *)
(* a number m * 10^e (kept normalised: m carries no trailing zero) or a    *)
(* string.                                                                 *)
(***************************************************************************)
RECURSIVE Pow10(_)
Pow10(k) == IF k <= 0 THEN 1 ELSE 10 * Pow10(k - 1)

RECURSIVE NDigits(_)
NDigits(a) == IF a < 10 THEN 1 ELSE 1 + NDigits(a \div 10)

Abs(a) == IF a < 0 THEN 0 - a ELSE a

RECURSIVE Norm(_, _)
Norm(m, e) ==
    IF m = 0 THEN [m |-> 0, e |-> 0]
    ELSE IF m % 10 = 0 THEN Norm(m \div 10, e + 1)
    ELSE [m |-> m, e |-> e]

Num(m, e) == [t |-> "num", m |-> Norm(m, e).m, e |-> Norm(m, e).e, s |-> ""]

Str(s) == [t |-> "str", m |-> 0, e |-> 0, s |-> s]

\* a <= b for two numbers, compared at their common (smaller) exponent
Leq(a, b) ==
    LET k == IF a.e < b.e THEN a.e ELSE b.e
    IN  a.m * Pow10(a.e - k) <= b.m * Pow10(b.e - k)

(***************************************************************************)
(* Python %-formatting of one value, as the set command templates use it.  *)
(***************************************************************************)
\* the decimal digits of k, zero padded on the left to width w
RECURSIVE Pad(_, _)
Pad(k, w) == IF w <= 0 THEN "" ELSE Pad(k \div 10, w - 1) \o ToString(k % 10)

\* a / q rounded to the nearest integer, ties to even
RoundDiv(a, q) ==
    LET d == a \div q
        r == a % q
    IN  IF 2 * r > q THEN d + 1
        ELSE IF 2 * r < q THEN d
        ELSE IF d % 2 = 0 THEN d ELSE d + 1

\* the number a * 10^e (a > 0) kept to six significant digits
Round6(a, e) ==
    LET n == NDigits(a)
    IN  IF n > 6 THEN Norm(RoundDiv(a, Pow10(n - 6)), e + (n - 6))
        ELSE Norm(a, e)

\* "%g" % v for a number v: six significant digits, trailing zeros removed,
\* exponent notation when the decimal exponent is < -4 or >= 6
FormatG(v) ==
    IF v.m = 0 THEN "0"
    ELSE
      LET r    == Round6(Abs(v.m), v.e)
          n    == NDigits(r.m)
          X    == r.e + n - 1
          sign == IF v.m < 0 THEN "-" ELSE ""
          lead == r.m \div Pow10(n - 1)
          rest == r.m % Pow10(n - 1)
      IN  IF X < -4 \/ X >= 6
          THEN sign \o ToString(lead)
                    \o (IF n > 1 THEN "." \o Pad(rest, n - 1) ELSE "")
                    \o "e" \o (IF X < 0 THEN "-" ELSE "+") \o Pad(Abs(X), 2)
          ELSE IF r.e >= 0
          THEN sign \o ToString(r.m * Pow10(r.e))
          ELSE sign \o ToString(r.m \div Pow10(0 - r.e))
                    \o "." \o Pad(r.m % Pow10(0 - r.e), 0 - r.e)


\* "%d" % v and "%s" % v for the values the driver formats with them
FormatD(v) == ToString(v.m * Pow10(v.e))

FormatS(v) == IF v.t = "str" THEN v.s ELSE FormatD(v)

\* does `template % v` raise?  %g and %d need a number, %s takes anything
FormatFails(conv, v) == conv \in {"g", "d"} /\ v.t # "num"

Format(conv, v) ==
    IF conv = "g" THEN FormatG(v)
    ELSE IF conv = "d" THEN FormatD(v)
    ELSE FormatS(v)

(***************************************************************************)
(* The control descriptors of the driver.  query_hdr \o "?" is the get     *)
(* command; set_hdr, a blank and the conversion conv make the set command  *)
(* template.  values holds the range <<min, max>> of a strict_range        *)
(* control, map the <<key, code>> pairs of a mapped one.                   *)
(***************************************************************************)
NoRange == <<Num(0, 0), Num(0, 0)>>

Descriptor(q, s, conv, validator, values, map) ==
    [query_hdr |-> q, set_hdr |-> s, conv |-> conv, validator |-> validator,
     values |-> values, map |-> map]

reference_level ==
    Descriptor(":DISPlay:TRACe:Y1:SCALe:RLEVel", ":DISPlay:TRACe:Y1:SCALe:RLEVel", "g",
               "strict_range", <<Num(-100, 0), Num(20, 0)>>, {})

\* level_position with its upper bound off by one
level_position_wide ==
    Descriptor(":DISPlay:TRACe:Y1:RPOSition", ":DISPlay:TRACe:Y1:RPOSition", "g",
               "strict_range", <<Num(0, 0), Num(13, 0)>>, {})

level_position ==
    Descriptor(":DISPlay:TRACe:Y1:RPOSition", ":DISPlay:TRACe:Y1:RPOSition", "g",
               "strict_range", <<Num(0, 0), Num(12, 0)>>, {})

\* sweep_mode with zero based device codes
sweep_mode_zero_based ==
    Descriptor(":INITiate:SMODe", ":INITiate:SMODe", "s",
               "strict_discrete_set", NoRange,
               {<<"SINGLE", 0>>, <<"REPEAT", 1>>, <<"AUTO", 2>>, <<"SEGMENT", 3>>})

\* sweep_mode with the codes of REPEAT and AUTO exchanged
sweep_mode_swapped ==
    Descriptor(":INITiate:SMODe", ":INITiate:SMODe", "s",
               "strict_discrete_set", NoRange,
               {<<"SINGLE", 1>>, <<"REPEAT", 3>>, <<"AUTO", 2>>, <<"SEGMENT", 4>>})

sweep_mode ==
    Descriptor(":INITiate:SMODe", ":INITiate:SMODe", "s",
               "strict_discrete_set", NoRange,
               {<<"SINGLE", 1>>, <<"REPEAT", 2>>, <<"AUTO", 3>>, <<"SEGMENT", 4>>})

\* sweep_speed with one based device codes
sweep_speed_one_based ==
    Descriptor(":SENSe:SETTing:SPEed", ":SENSe:SWEep:SPEed", "d",
               "strict_discrete_set", NoRange, {<<"1x", 1>>, <<"2x", 2>>})

sweep_speed ==
    Descriptor(":SENSe:SETTing:SPEed", ":SENSe:SWEep:SPEed", "d",
               "strict_discrete_set", NoRange, {<<"1x", 0>>, <<"2x", 1>>})

sweep_time_interval ==
    Descriptor(":SENSe:SWEep:TIME:INTerval", ":SENSe:SWEep:TIME:INTerval", "g",
               "strict_range", <<Num(0, 0), Num(99999, 0)>>, {})

wavelength_center ==
    Descriptor(":SENSe:WAVelength:CENTer", ":SENSe:WAVelength:CENTer", "g",
               "strict_range", <<Num(50, -9), Num(2250, -9)>>, {})

wavelength_span ==
    Descriptor(":SENSe:WAVelength:SPAN", ":SENSe:WAVelength:SPAN", "g",
               "strict_range", <<Num(0, 0), Num(1100, -9)>>, {})

wavelength_start ==
    Descriptor(":SENSe:WAVelength:STARt", ":SENSe:WAVelength:STARt", "g",
               "strict_range", <<Num(50, -9), Num(2250, -9)>>, {})

wavelength_stop ==
    Descriptor(":SENSe:WAVelength:STOP", ":SENSe:WAVelength:STOP", "g",
               "strict_range", <<Num(50, -9), Num(2250, -9)>>, {})

active_trace ==
    Descriptor(":TRACe:ACTive", ":TRACe:ACTive", "d", "none", NoRange, {})

resolution_bandwidth ==
    Descriptor(":SENSe:BWIDth:RESolution", ":SENSe:BWIDth:RESolution", "g",
               "strict_range", <<Num(2, -11), Num(2, -9)>>, {})

Controls ==
    {"reference_level", "level_position", "sweep_mode", "sweep_speed",
     "sweep_time_interval", "wavelength_center", "wavelength_span",
     "wavelength_start", "wavelength_stop", "active_trace", "resolution_bandwidth"}

\* the descriptor bound to an attribute name of the class
Control(c) ==
    CASE c = "reference_level"      -> reference_level
      [] c = "level_position"       -> level_position
      [] c = "sweep_mode"           -> sweep_mode
      [] c = "sweep_speed"          -> sweep_speed
      [] c = "sweep_time_interval"  -> sweep_time_interval
      [] c = "wavelength_center"    -> wavelength_center
      [] c = "wavelength_span"      -> wavelength_span
      [] c = "wavelength_start"     -> wavelength_start
      [] c = "wavelength_stop"      -> wavelength_stop
      [] c = "active_trace"         -> active_trace
      [] c = "resolution_bandwidth" -> resolution_bandwidth


(***************************************************************************)
(* The property mechanism the descriptors are handed to                    *)
(* (Instrument.control with strict_range / strict_discrete_set).           *)
(***************************************************************************)
Keys(d) == {p[1] : p \in d.map}

Codes(d) == {p[2] : p \in d.map}

CodeOf(d, k) == (CHOOSE p \in d.map : p[1] = k)[2]

KeyOf(d, code) == (CHOOSE p \in d.map : p[2] = code)[1]

\* strict_range: the value itself inside [min, max], a failure outside
strict_range(v, values) ==
    IF Leq(values[1], v) /\ Leq(v, values[2]) THEN "ok" ELSE "RangeError"

\* strict_discrete_set on a mapped control: membership among the map's keys
strict_discrete_set(v, d) ==
    IF v.t = "str" /\ v.s \in Keys(d) THEN "ok" ELSE "InvalidChoiceError"

Validate(d, v) ==
    IF d.validator = "strict_range" THEN strict_range(v, d.values)
    ELSE IF d.validator = "strict_discrete_set" THEN strict_discrete_set(v, d)
    ELSE "ok"

\* the value handed to the template: the device code of a mapped control
Translate(d, v) == IF d.map = {} THEN v ELSE Num(CodeOf(d, v.s), 0)

\* set: validate, translate, format, write.  The outcome and the command.
fset(d, v) ==
    IF Validate(d, v) # "ok"
    THEN [outcome |-> Validate(d, v), arg |-> "", cmd |-> ""]
    ELSE IF FormatFails(d.conv, Translate(d, v))
    THEN [outcome |-> "TypeError", arg |-> "", cmd |-> ""]
    ELSE [outcome |-> "ok",
          arg     |-> Format(d.conv, Translate(d, v)),
          cmd     |-> d.set_hdr \o " " \o Format(d.conv, Translate(d, v))]

(***************************************************************************)
(* Inputs.  Candidate values of each control: both bounds, a value just    *)
(* outside each bound, interior values; keys, a non-key and a bare device  *)
(* code for the mapped controls; trace identifiers.                        *)
(***************************************************************************)
Candidates(c) ==
    CASE c = "reference_level" ->
           {Num(-1005, -1), Num(-100, 0), Num(-105, -1), Num(20, 0), Num(21, 0)}
      [] c = "level_position" ->
           {Num(-1, 0), Num(0, 0), Num(12, 0), Num(13, 0)}
      [] c = "sweep_time_interval" ->
           {Num(-1, 0), Num(0, 0), Num(99999, 0), Num(100000, 0)}
      [] c = "wavelength_center" ->
           {Num(49, -9), Num(50, -9), Num(1550, -9), Num(15501234, -13),
            Num(2250, -9), Num(3000, -9)}
      [] c \in {"wavelength_start", "wavelength_stop"} ->
           {Num(499, -10), Num(50, -9), Num(2250, -9), Num(22501, -10)}
      [] c = "wavelength_span" ->
           {Num(-1, -9), Num(0, 0), Num(3, -7), Num(5, -7), Num(1100, -9),
            Num(1101, -9)}
      [] c = "resolution_bandwidth" ->
           {Num(1, -11), Num(2, -11), Num(2, -9), Num(3, -9)}
      [] c = "sweep_mode" ->
           {Str("SINGLE"), Str("REPEAT"), Str("AUTO"), Str("SEGMENT"),
            Str("FAST"), Num(2, 0)}
      [] c = "sweep_speed" ->
           {Str("1x"), Str("2x"), Num(1, 0)}
      [] c = "active_trace" ->
           {Str("TRA"), Str("TRB"), Str("TRC"), Num(1, 0)}

Traces == {"TRA", "TRC", "TRZ"}

DeleteArgs == {"ALL", "TRB", "TRZ"}

DataTraces == {"TRA", "TRB"}


(***************************************************************************)
(* The device behind the connection.  It stores the argument of a written  *)
(* command under the header it was written to and answers a query with     *)
(* what it stores under the header queried.                                *)
(***************************************************************************)
Headers ==
    {Control(c).query_hdr : c \in Controls} \cup {Control(c).set_hdr : c \in Controls}

\* the settings of a device whose sweep mode and speed read sm and sp
Preset(sm, sp) ==
    [h \in Headers |->
        CASE h = ":DISPlay:TRACe:Y1:SCALe:RLEVel" -> "-10"
          [] h = ":DISPlay:TRACe:Y1:RPOSition"    -> "8"
          [] h = ":INITiate:SMODe"                -> sm
          [] h = ":SENSe:SETTing:SPEed"           -> sp
          [] h = ":SENSe:SWEep:SPEed"             -> sp
          [] h = ":SENSe:SWEep:TIME:INTerval"     -> "0"
          [] h = ":SENSe:WAVelength:CENTer"       -> "1.55e-06"
          [] h = ":SENSe:WAVelength:SPAN"         -> "1e-07"
          [] h = ":SENSe:WAVelength:STARt"        -> "1.5e-06"
          [] h = ":SENSe:WAVelength:STOP"         -> "1.6e-06"
          [] h = ":TRACe:ACTive"                  -> "TRA"
          [] h = ":SENSe:BWIDth:RESolution"       -> "1e-10"
          [] OTHER                                -> "0"]

Presets == {Preset("3", "1"), Preset("5", "2")}

DeviceWrite(dev, hdr, arg) == [dev EXCEPT ![hdr] = arg]

\* the comma separated fields the device answers a trace data query with
TraceData(axis, trace) ==
    IF axis = "X" THEN <<"1.5e-06", "1.6e-06">> ELSE <<"-20.5", "-60">>

(***************************************************************************)
(* Reading a response: each field is cast to a float when it is the text   *)
(* of a number and kept as a string otherwise.                             *)
(***************************************************************************)
Rounded(v) ==
    IF v.m < 0 THEN Num(0 - Round6(0 - v.m, v.e).m, Round6(0 - v.m, v.e).e)
    ELSE IF v.m = 0 THEN v
    ELSE Num(Round6(v.m, v.e).m, Round6(v.m, v.e).e)

Numerals ==
    {Rounded(v) : v \in {w \in UNION {Candidates(c) : c \in Controls} : w.t = "num"}}
    \cup {Num(k, 0) : k \in 0..8}
    \cup {Num(-10, 0), Num(155, -8), Num(1, -7), Num(15, -7), Num(16, -7),
          Num(1, -10), Num(-205, -1), Num(-60, 0)}

\* the text of each number a response can hold
NumeralText == [v \in Numerals |-> FormatG(v)]

ParseField(text) ==
    IF \E v \in Numerals : NumeralText[v] = text
    THEN CHOOSE v \in Numerals : NumeralText[v] = text
    ELSE Str(text)

ParseFields(fields) == [i \in 1..Len(fields) |-> ParseField(fields[i])]

\* get: the parsed response, reverse mapped to its key on a mapped control
fget(d, fields) ==
    LET vals == ParseFields(fields)
    IN  IF Len(vals) # 1 \/ d.map = {}
        THEN [outcome |-> "ok", result |-> vals]
        ELSE IF \E code \in Codes(d) : vals[1] = Num(code, 0)
        THEN [outcome |-> "ok",
              result  |-> <<Str(KeyOf(d, CHOOSE code \in Codes(d) : vals[1] = Num(code, 0)))>>]
        ELSE [outcome |-> "MappingError", result |-> <<>>]

(***************************************************************************)
(* The state: the connection's write log, the number of responses read     *)
(* from it, the device's settings, and what the last operation was, what   *)
(* it was called with (arg, arg2), how it ended and what it returned; pre  *)
(* and rpre are the lengths of the write log and the read count at the     *)
(* call.                                                                   *)
(***************************************************************************)
MaxOps == 2

None == Str("")

Called(op, ctl, arg, arg2, outcome, result) ==
    [op |-> op, ctl |-> ctl, arg |-> arg, arg2 |-> arg2, outcome |-> outcome,
     result |-> result, pre |-> Len(writes), rpre |-> reads]

Init ==
    /\ writes = <<>>
    /\ reads = 0
    /\ device \in Presets
    /\ last = [op |-> "init", ctl |-> "", arg |-> None, arg2 |-> "", outcome |-> "ok",
               result |-> <<>>, pre |-> 0, rpre |-> 0]
    /\ nops = 0

\* self.write(command): one command on the connection, no response read
write(command) ==
    /\ writes' = Append(writes, command)
    /\ reads' = reads

\* self.values(command): one command on the connection, one response read
values(command) ==
    /\ writes' = Append(writes, command)
    /\ reads' = reads + 1

abort ==
    /\ nops < MaxOps
    /\ write(":ABORt")
    /\ last' = Called("abort", "", None, "", "ok", <<>>)
    /\ nops' = nops + 1
    /\ UNCHANGED device

initiate ==
    /\ nops < MaxOps
    /\ write(":INITiate:IMMediate")
    /\ last' = Called("initiate", "", None, "", "ok", <<>>)
    /\ nops' = nops + 1
    /\ UNCHANGED device

level_position_max ==
    /\ nops < MaxOps
    /\ write(":CALCulate:MARKer:MAXimum:SRLevel")
    /\ last' = Called("level_position_max", "", None, "", "ok", <<>>)
    /\ nops' = nops + 1
    /\ UNCHANGED device

\* instrument.<c> = v
control_set(c, v) ==
    LET d == Control(c)
        r == fset(d, v)
    IN  /\ nops < MaxOps
        /\ IF r.outcome = "ok"
           THEN /\ write(r.cmd)
                /\ device' = DeviceWrite(device, d.set_hdr, r.arg)
           ELSE UNCHANGED <<writes, reads, device>>
        /\ last' = Called("set", c, v, "", r.outcome, <<>>)
        /\ nops' = nops + 1

\* instrument.<c>
control_get(c) ==
    LET d == Control(c)
        r == fget(d, <<device[d.query_hdr]>>)
    IN  /\ nops < MaxOps
        /\ values(d.query_hdr \o "?")
        /\ last' = Called("get", c, None, "", r.outcome, r.result)
        /\ nops' = nops + 1
        /\ UNCHANGED device

\* copy_trace with the two identifiers exchanged in the command
copy_trace_swapped(source, destination) ==
    /\ nops < MaxOps
    /\ write(":TRACe:COPY " \o destination \o "," \o source)
    /\ last' = Called("copy_trace", "", Str(source), destination, "ok", <<>>)
    /\ nops' = nops + 1
    /\ UNCHANGED device

copy_trace(source, destination) ==
    /\ nops < MaxOps
    /\ write(":TRACe:COPY " \o source \o "," \o destination)
    /\ last' = Called("copy_trace", "", Str(source), destination, "ok", <<>>)
    /\ nops' = nops + 1
    /\ UNCHANGED device

\* delete_trace without the "ALL" sentinel
delete_trace_no_sentinel(trace) ==
    /\ nops < MaxOps
    /\ write(":TRACe:DELete " \o trace)
    /\ last' = Called("delete_trace", "", Str(trace), "", "ok", <<>>)
    /\ nops' = nops + 1
    /\ UNCHANGED device

delete_trace(trace) ==
    /\ nops < MaxOps
    /\ IF trace = "ALL"
       THEN write(":TRACe:DELete:ALL")
       ELSE write(":TRACe:DELete " \o trace)
    /\ last' = Called("delete_trace", "", Str(trace), "", "ok", <<>>)
    /\ nops' = nops + 1
    /\ UNCHANGED device

get_xdata(trace) ==
    /\ nops < MaxOps
    /\ values(":TRACe:X? " \o trace)
    /\ last' = Called("get_xdata", "", Str(trace), "", "ok",
                      ParseFields(TraceData("X", trace)))
    /\ nops' = nops + 1
    /\ UNCHANGED device

\* get_ydata sending its query with self.write, reading no response
get_ydata_write_only(trace) ==
    /\ nops < MaxOps
    /\ write(":TRACe:Y? " \o trace)
    /\ last' = Called("get_ydata", "", Str(trace), "", "ok", <<>>)
    /\ nops' = nops + 1
    /\ UNCHANGED device

get_ydata(trace) ==
    /\ nops < MaxOps
    /\ values(":TRACe:Y? " \o trace)
    /\ last' = Called("get_ydata", "", Str(trace), "", "ok",
                      ParseFields(TraceData("Y", trace)))
    /\ nops' = nops + 1
    /\ UNCHANGED device

Next ==
    \/ abort
    \/ initiate
    \/ level_position_max
    \/ \E c \in Controls : \E v \in Candidates(c) : control_set(c, v)
    \/ \E c \in Controls : control_get(c)
    \/ \E s \in Traces : \E t \in Traces : copy_trace(s, t)
    \/ \E t \in DeleteArgs : delete_trace(t)
    \/ \E t \in DataTraces : get_xdata(t)
    \/ \E t \in DataTraces : get_ydata(t)

Spec == Init /\ [][Next]_vars


(***************************************************************************)
(* Properties.                                                             *)
(***************************************************************************)
RangeControls ==
    {"reference_level", "level_position", "sweep_time_interval", "wavelength_center",
     "wavelength_start", "wavelength_stop", "wavelength_span", "resolution_bandwidth"}

MappedControls == {"sweep_mode", "sweep_speed"}

\* the documented range of each range validated control
StatedRange(c) ==
    CASE c = "reference_level"      -> <<Num(-100, 0), Num(20, 0)>>
      [] c = "level_position"       -> <<Num(0, 0), Num(12, 0)>>
      [] c = "sweep_time_interval"  -> <<Num(0, 0), Num(99999, 0)>>
      [] c = "wavelength_center"    -> <<Num(50, -9), Num(2250, -9)>>
      [] c = "wavelength_start"     -> <<Num(50, -9), Num(2250, -9)>>
      [] c = "wavelength_stop"      -> <<Num(50, -9), Num(2250, -9)>>
      [] c = "wavelength_span"      -> <<Num(0, 0), Num(1100, -9)>>
      [] c = "resolution_bandwidth" -> <<Num(2, -11), Num(2, -9)>>

InStatedRange(c, v) == Leq(StatedRange(c)[1], v) /\ Leq(v, StatedRange(c)[2])

\* the documented set command header of each control
StatedSetHeader(c) ==
    CASE c = "reference_level"      -> ":DISPlay:TRACe:Y1:SCALe:RLEVel"
      [] c = "level_position"       -> ":DISPlay:TRACe:Y1:RPOSition"
      [] c = "sweep_mode"           -> ":INITiate:SMODe"
      [] c = "sweep_speed"          -> ":SENSe:SWEep:SPEed"
      [] c = "sweep_time_interval"  -> ":SENSe:SWEep:TIME:INTerval"
      [] c = "wavelength_center"    -> ":SENSe:WAVelength:CENTer"
      [] c = "wavelength_span"      -> ":SENSe:WAVelength:SPAN"
      [] c = "wavelength_start"     -> ":SENSe:WAVelength:STARt"
      [] c = "wavelength_stop"      -> ":SENSe:WAVelength:STOP"
      [] c = "active_trace"         -> ":TRACe:ACTive"
      [] c = "resolution_bandwidth" -> ":SENSe:BWIDth:RESolution"

\* the documented text of the device code of each key of a mapped control
StatedCode(c, k) ==
    IF c = "sweep_mode"
    THEN CASE k = "SINGLE" -> "1" [] k = "REPEAT" -> "2" [] k = "AUTO" -> "3"
           [] k = "SEGMENT" -> "4"
    ELSE CASE k = "1x" -> "0" [] k = "2x" -> "1"

StatedKeys(c) ==
    IF c = "sweep_mode" THEN {"SINGLE", "REPEAT", "AUTO", "SEGMENT"} ELSE {"1x", "2x"}

C2_MappedSet ==
    [][(last'.op = "set" /\ last'.ctl \in MappedControls) =>
          IF last'.arg.t = "str" /\ last'.arg.s \in StatedKeys(last'.ctl)
          THEN /\ last'.outcome = "ok"
               /\ writes' = Append(writes,
                     StatedSetHeader(last'.ctl) \o " "
                        \o StatedCode(last'.ctl, last'.arg.s))
          ELSE /\ last'.outcome = "InvalidChoiceError"
               /\ writes' = writes]_vars

\* "2x" was written as code 1 and the bare code 2 was then refused by sweep_mode
C2_Witness ==
    /\ last.op = "set" /\ last.ctl = "sweep_mode" /\ last.arg = Num(2, 0)
    /\ last.outcome = "InvalidChoiceError"
    /\ writes = <<":SENSe:SWEep:SPEed 1">>

\* C3: a get on sweep_mode or sweep_speed returns the key mapped to the code
\* the device answers with, and fails with a mapping error, returning nothing,
\* when the answer is no code of the map.
C3_MappedGet ==
    (last.op = "get" /\ last.ctl \in MappedControls) =>
        LET answer == device[Control(last.ctl).query_hdr]
            hits   == {k \in StatedKeys(last.ctl) : StatedCode(last.ctl, k) = answer}
        IN  IF hits # {}
            THEN last.outcome = "ok" /\ \E k \in hits : last.result = <<Str(k)>>
            ELSE last.outcome = "MappingError" /\ last.result = <<>>

\* the answer 5, no code of the sweep mode map, was refused
C3_Witness ==
    /\ last.op = "get" /\ last.ctl = "sweep_mode"
    /\ device[":INITiate:SMODe"] = "5" /\ last.outcome = "MappingError"
    /\ writes = <<":SENSe:SETTing:SPEed?", ":INITiate:SMODe?">>

\* C4: setting sweep_mode to a key k writes ":INITiate:SMODe <code of k>", and a
\* get that follows, answered with that code, returns k.
C4_SweepModeRoundTrip ==
    [][/\ (last'.op = "set" /\ last'.ctl = "sweep_mode" /\ last'.arg.t = "str"
             /\ last'.arg.s \in StatedKeys("sweep_mode")) =>
            writes' = Append(writes,
                ":INITiate:SMODe " \o StatedCode("sweep_mode", last'.arg.s))
       /\ (/\ last.op = "set" /\ last.ctl = "sweep_mode" /\ last.outcome = "ok"
           /\ last'.op = "get" /\ last'.ctl = "sweep_mode"
           /\ device[":INITiate:SMODe"] = StatedCode("sweep_mode", last.arg.s)) =>
            (last'.outcome = "ok" /\ last'.result = <<last.arg>>)]_vars

\* REPEAT went out as code 2 and was read back as REPEAT
C4_Witness ==
    /\ writes = <<":INITiate:SMODe 2", ":INITiate:SMODe?">>
    /\ last.op = "get" /\ last.result = <<Str("REPEAT")>>


\* C5: delete_trace(trace) appends exactly one command, ":TRACe:DELete:ALL"
\* when trace is "ALL" and ":TRACe:DELete <trace>" otherwise; the delete-all
\* command is written for no other argument.
C5_DeleteTrace ==
    [][(last'.op = "delete_trace") =>
          /\ Len(writes') = Len(writes) + 1
          /\ SubSeq(writes', 1, Len(writes)) = writes
          /\ (writes'[Len(writes')] = ":TRACe:DELete:ALL") <=> (last'.arg.s = "ALL")
          /\ last'.arg.s # "ALL" =>
                writes'[Len(writes')] = ":TRACe:DELete " \o last'.arg.s]_vars

\* one trace was deleted, then all of them
C5_Witness ==
    /\ last.op = "delete_trace" /\ last.arg = Str("ALL")
    /\ writes = <<":TRACe:DELete TRB", ":TRACe:DELete:ALL">>

\* C6: copy_trace(source, destination) appends exactly the one command
\* ":TRACe:COPY <source>,<destination>", whatever the two identifiers are.
C6_CopyTrace ==
    [][(last'.op = "copy_trace") =>
          writes' = Append(writes,
              ":TRACe:COPY " \o last'.arg.s \o "," \o last'.arg2)]_vars

\* a trace was copied to another, then an unknown trace onto itself
C6_Witness ==
    /\ last.op = "copy_trace" /\ last.arg = Str("TRZ") /\ last.arg2 = "TRZ"
    /\ writes = <<":TRACe:COPY TRA,TRC", ":TRACe:COPY TRZ,TRZ">>

WriteOps == {"abort", "initiate", "level_position_max", "copy_trace", "delete_trace"}

QueryOps == {"get", "get_xdata", "get_ydata"}

\* C7: every operation appends at most one command to the write log and never
\* touches the commands before it: a direct command or a successful set
\* appends one and reads no response, a query appends one and reads exactly
\* one response, a set that fails appends none and reads none.
C7_OneWritePerOperation ==
    [][/\ SubSeq(writes', 1, Len(writes)) = writes
       /\ last'.pre = Len(writes) /\ last'.rpre = reads
       /\ (last'.op \in WriteOps \/ (last'.op = "set" /\ last'.outcome = "ok")) =>
             (Len(writes') = Len(writes) + 1 /\ reads' = reads)
       /\ (last'.op \in QueryOps) =>
             (Len(writes') = Len(writes) + 1 /\ reads' = reads + 1)
       /\ (last'.op = "set" /\ last'.outcome # "ok") =>
             (writes' = writes /\ reads' = reads)]_vars

\* a query followed a write: two commands in call order, one response read
C7_Witness ==
    /\ writes = <<":ABORt", ":TRACe:Y? TRA">>
    /\ reads = 1 /\ last.op = "get_ydata" /\ Len(last.result) = 2

\* C8: setting active_trace to a trace identifier ('TRA', 'TRB', 'TRC')
\* succeeds and appends exactly one write, ":TRACe:ACTive <identifier>".
C8_ActiveTraceSet ==
    [][(last'.op = "set" /\ last'.ctl = "active_trace" /\ last'.arg.t = "str") =>
          /\ last'.outcome = "ok"
          /\ writes' = Append(writes, ":TRACe:ACTive " \o last'.arg.s)]_vars

\* the range the wavelength_span documentation states: 0 to 3e-7 m
InDocumentedSpan(v) == Leq(Num(0, 0), v) /\ Leq(v, Num(3, -7))

\* C9: setting wavelength_span to a value in [0, 3e-7] succeeds and appends one
\* write; setting a value above 3e-7 or below 0 fails and appends none.
C9_SpanRange ==
    [][(last'.op = "set" /\ last'.ctl = "wavelength_span") =>
          IF InDocumentedSpan(last'.arg)
          THEN last'.outcome = "ok" /\ Len(writes') = Len(writes) + 1
          ELSE last'.outcome # "ok" /\ writes' = writes]_vars

\* C10: the query header of every control is its set header, and a successful
\* set of v immediately followed by a get of the same control returns v.
C10_SetGetConsistency ==
    [][(/\ last.op = "set" /\ last.outcome = "ok"
        /\ last'.op = "get" /\ last'.ctl = last.ctl) =>
          /\ Control(last.ctl).query_hdr = Control(last.ctl).set_hdr
          /\ last'.outcome = "ok"
          /\ last'.result = <<last.arg>>]_vars

====
